---- MODULE Spec2Model ----
(***************************************************************************)
(* A model of telminal: the view tree and its renderers (src/tree.rs over  *)
(* a ScreenBuffer, src/lib.rs over Vec<Vec<Character>>), the frame diff    *)
(* and the control loop Terminal::new / Terminal::run / Drop, with the     *)
(* counter application of src/main.rs as the application code.             *)
(*                                                                         *)
(* Rust tuples (a, b) are TLA+ tuples <<a, b>>: Rust's .0 is [1], .1 is [2].*)
(* A String is the sequence of its code points; a grapheme cluster is a    *)
(* non-empty sequence of code points.                                      *)
(***************************************************************************)
EXTENDS Integers, Sequences, FiniteSets, TLC

\* ------------------------------------------------------------------ bounds

\* The largest counter value the user is let to reach by pressing Up.
MaxModel == 2

\* ------------------------------------------------------------ machine words

\* u16: the type of origins, sizes and of the diff's cursor positions.
U16 == 65536

\* u32, the type of the counter Model(u32): 2^32 = U32_high * 10^5 + U32_low.
\* A u32 is held as the integer of least magnitude congruent to it modulo
\* 2^32 (u32::MAX as -1), TLC's integers being 32 bits wide.
U32_high == 42949
U32_low == 67296

\* The outcome of indexing outside a vector or a ScreenBuffer: a panic.
Panic == -1

Min(S) == CHOOSE m \in S : \A n \in S : m <= n

\* --------------------------------------------------------------- characters

\* crossterm's Color, cut to the values the applications below use.
Color == {"Reset", "Red", "Blue"}

\* Option::None of Option<Color> and of Option<fn(KeyEvent) -> Msg>.
NoneOpt == "None"

\* impl Default for Character
Character_default ==
    [foreground_color |-> "Reset", background_color |-> "Reset", character |-> <<" ">>]

\* Code points that extend the cluster before them (combining marks).
Extend == {"U+0301"}

\* A mutant of graphemes: one cluster for every code point.
graphemes_code_points(text) == [i \in 1..Len(text) |-> <<text[i]>>]

\* UnicodeSegmentation::graphemes(true): the extended grapheme clusters of a
\* string, each a sequence of code points; a combining mark joins the cluster
\* before it.
graphemes(text) ==
    LET g[i \in 0..Len(text)] ==
            IF i = 0 THEN <<>>
            ELSE IF text[i] \in Extend /\ g[i - 1] /= <<>>
                 THEN [g[i - 1] EXCEPT ![Len(g[i - 1])] = @ \o <<text[i]>>]
                 ELSE Append(g[i - 1], <<text[i]>>)
    IN  g[Len(text)]

\* ------------------------------------------------------------- ScreenBuffer

\* ScreenBuffer::new: width * height copies of the default cell, row-major.
ScreenBuffer_new(width, height, default) ==
    [width |-> width, height |-> height,
     data |-> [k \in 0..(width * height - 1) |-> default]]

\* A mutant of index_mut: the two assertions removed, leaving only the bounds
\* check of the flat vector.
index_mut_unasserted(screen, col, row) ==
    IF row * screen.width + col < screen.width * screen.height
    THEN row * screen.width + col
    ELSE Panic

\* IndexMut<(usize, usize)> for ScreenBuffer: the flat position of (col, row),
\* or a panic when an assertion fails.
index_mut(screen, col, row) ==
    IF col < screen.width /\ row < screen.height
    THEN row * screen.width + col
    ELSE Panic

\* The result of a render call: Ok(()), Err(..) or a panic, with the buffer as
\* the call left it.
Rendered(status, screen) == [status |-> status, screen |-> screen]

\* ------------------------------------------------------- build configuration

\* a + b on u16. With overflow checks (a debug build) an overflow panics;
\* without (a release build) it wraps.
add_u16(a, b, overflow_checks) ==
    IF a + b < U16 THEN a + b
    ELSE IF overflow_checks THEN Panic ELSE (a + b) % U16

\* The cells a nested loop
\*     for y in oy..ey { for x in ox..ex { .. } }
\* visits, in the order it visits them, as positions 0, 1, 2, ..
LoopCells(ox, ex, oy, ey) == (ox..(ex - 1)) \X (oy..(ey - 1))

LoopKey(c, ox, ex, oy) == (c[2] - oy) * (ex - ox) + (c[1] - ox)

\* ------------------------------------------------------- src/tree.rs: render

\* fn render_text
render_text(text, screen, bounds) ==
    LET x == bounds.origin[1]
        y == bounds.origin[2]
        g == graphemes(text)
        step[i \in 0..Len(g)] ==
            IF i = 0 THEN Rendered("Ok", screen)
            ELSE LET p == step[i - 1]
                     k == index_mut(p.screen, x + (i - 1), y)
                 IN  IF p.status /= "Ok" THEN p
                     ELSE IF k = Panic THEN Rendered("Panic", p.screen)
                     ELSE Rendered("Ok", [p.screen EXCEPT !.data[k].character = g[i]])
    IN  step[Len(g)]

\* fn render_column: a no-op.
render_column(column, screen, bounds) == Rendered("Ok", screen)

\* The fill loop of render_container: every cell of bounds, row by row, gets
\* the style's colors (where present) and a space; the loop stops with a panic
\* at the first cell index_mut rejects.
container_fill(style, screen, bounds, overflow_checks) ==
    LET ox == bounds.origin[1]
        oy == bounds.origin[2]
        ey == add_u16(oy, bounds.size[2], overflow_checks)
        ex == add_u16(ox, bounds.size[1], overflow_checks)
        cells == LoopCells(ox, ex, oy, ey)
        bad == {c \in cells : index_mut(screen, c[1], c[2]) = Panic}
        stop == IF bad = {} THEN Cardinality(cells)
                ELSE Min({LoopKey(c, ox, ex, oy) : c \in bad})
        hit == {index_mut(screen, c[1], c[2]) :
                    c \in {d \in cells : LoopKey(d, ox, ex, oy) < stop}}
        paint(ch) ==
            [foreground_color |->
                 IF style.color /= NoneOpt THEN style.color ELSE ch.foreground_color,
             background_color |->
                 IF style.background_color /= NoneOpt
                 THEN style.background_color ELSE ch.background_color,
             character |-> <<" ">>]
    IN  IF ey = Panic THEN Rendered("Panic", screen)
        ELSE IF oy >= ey THEN Rendered("Ok", screen)
        ELSE IF ex = Panic THEN Rendered("Panic", screen)
        ELSE Rendered(IF bad = {} THEN "Ok" ELSE "Panic",
                      [screen EXCEPT !.data =
                          [k \in DOMAIN screen.data |->
                              IF k \in hit THEN paint(screen.data[k])
                              ELSE screen.data[k]]])

\* A mutant of row_child_bounds: every child gets a slice one offset wide.
row_child_bounds_equal(bounds, offset, i) ==
    [origin |-> <<offset * (i % U16), bounds.origin[2]>>,
     size |-> <<offset, bounds.size[2]>>]

\* The bounds render_row gives child i (0-based) of len children.
row_child_bounds(bounds, offset, i) ==
    [origin |-> <<offset * (i % U16), bounds.origin[2]>>,
     size |-> <<bounds.size[1] - offset * (i % U16), bounds.size[2]>>]

RECURSIVE render(_, _, _, _)
RECURSIVE render_row(_, _, _, _)
RECURSIVE render_container(_, _, _, _)

\* fn render: the dispatch on the node's variant.
render(view, screen, bounds, overflow_checks) ==
    CASE view.type = "None" -> Rendered("Ok", screen)
      [] view.type = "Text" -> render_text(view.text, screen, bounds)
      [] view.type = "Column" -> render_column(view.children, screen, bounds)
      [] view.type = "Row" -> render_row(view.children, screen, bounds, overflow_checks)
      [] OTHER -> render_container(view, screen, bounds, overflow_checks)

\* fn render_row: bounds.size.0 / len panics for len = 0 (division by zero).
render_row(rows, screen, bounds, overflow_checks) ==
    LET len == Len(rows)
        offset == bounds.size[1] \div (len % U16)
        step[i \in 0..len] ==
            IF i = 0 THEN Rendered("Ok", screen)
            ELSE IF step[i - 1].status /= "Ok" THEN step[i - 1]
            ELSE render(rows[i], step[i - 1].screen,
                        row_child_bounds(bounds, offset, i - 1), overflow_checks)
    IN  IF len % U16 = 0 THEN Rendered("Panic", screen)
        ELSE step[len]

\* A mutant of render_container: the child is rendered before the fill.
render_container_child_first(container, screen, bounds, overflow_checks) ==
    IF container.type = "Container"
    THEN LET child == render(container.child, screen, bounds, overflow_checks)
         IN  IF child.status /= "Ok" THEN child
             ELSE container_fill(container.style, child.screen, bounds, overflow_checks)
    ELSE Rendered("Err", screen)

\* fn render_container
render_container(container, screen, bounds, overflow_checks) ==
    IF container.type = "Container"
    THEN LET filled == container_fill(container.style, screen, bounds, overflow_checks)
         IN  IF filled.status /= "Ok" THEN filled
             ELSE render(container.child, filled.screen, bounds, overflow_checks)
    ELSE Rendered("Err", screen)

\* ------------------------------------------- src/lib.rs: ViewNode::render

\* vec![vec![Character::default(); size.0]; size.1]
fresh_buffer(size) ==
    [y \in 0..(size[2] - 1) |-> [x \in 0..(size[1] - 1) |-> Character_default]]

\* stdout[y as usize][x as usize] on a Vec<Vec<Character>> panics when a
\* vector is indexed past its end.
vec_index_panics(stdout, x, y) ==
    ~(y \in DOMAIN stdout /\ x \in DOMAIN stdout[y])

\* impl ViewNode for TextView
TextView_render(text, stdout, bounds) ==
    LET x == bounds.origin[1]
        y == bounds.origin[2]
        g == graphemes(text)
        step[i \in 0..Len(g)] ==
            IF i = 0 THEN Rendered("Ok", stdout)
            ELSE LET p == step[i - 1]
                 IN  IF p.status /= "Ok" THEN p
                     ELSE IF vec_index_panics(p.screen, x + (i - 1), y)
                          THEN Rendered("Panic", p.screen)
                     ELSE Rendered("Ok",
                              [p.screen EXCEPT ![y][x + (i - 1)].character = g[i]])
    IN  step[Len(g)]

\* The fill loop of View::render (lib.rs:99-106).
View_fill(style, stdout, bounds, overflow_checks) ==
    LET ox == bounds.origin[1]
        oy == bounds.origin[2]
        ey == add_u16(oy, bounds.size[2], overflow_checks)
        ex == add_u16(ox, bounds.size[1], overflow_checks)
        cells == LoopCells(ox, ex, oy, ey)
        bad == {c \in cells : vec_index_panics(stdout, c[1], c[2])}
        stop == IF bad = {} THEN (ex - ox) * (ey - oy)
                ELSE Min({LoopKey(c, ox, ex, oy) : c \in bad})
        visited(x, y) ==
            /\ ox <= x /\ x < ex /\ oy <= y /\ y < ey
            /\ LoopKey(<<x, y>>, ox, ex, oy) < stop
        paint(ch) ==
            [foreground_color |->
                 IF style.color /= NoneOpt THEN style.color ELSE ch.foreground_color,
             background_color |->
                 IF style.background_color /= NoneOpt
                 THEN style.background_color ELSE ch.background_color,
             character |-> <<" ">>]
    IN  IF ey = Panic THEN Rendered("Panic", stdout)
        ELSE IF oy >= ey THEN Rendered("Ok", stdout)
        ELSE IF ex = Panic THEN Rendered("Panic", stdout)
        ELSE Rendered(IF bad = {} THEN "Ok" ELSE "Panic",
                      [y \in DOMAIN stdout |-> [x \in DOMAIN stdout[y] |->
                          IF visited(x, y) THEN paint(stdout[y][x]) ELSE stdout[y][x]]])

RECURSIVE ViewNode_render(_, _, _, _)
RECURSIVE View_render(_, _, _, _)
RECURSIVE RowView_render(_, _, _, _)

\* child.render(..) on a Box<dyn ViewNode>: the implementation of the node's type.
ViewNode_render(node, stdout, bounds, overflow_checks) ==
    CASE node.type = "Text" -> TextView_render(node.text, stdout, bounds)
      [] node.type = "Row" -> RowView_render(node.children, stdout, bounds, overflow_checks)
      [] node.type = "Container" -> View_render(node, stdout, bounds, overflow_checks)

\* impl ViewNode for View<Msg>; a child of type "None" is Option::None.
View_render(view, stdout, bounds, overflow_checks) ==
    LET filled == View_fill(view.style, stdout, bounds, overflow_checks)
    IN  IF filled.status /= "Ok" THEN filled
        ELSE IF view.child.type = "None" THEN filled
        ELSE ViewNode_render(view.child, filled.screen, bounds, overflow_checks)

\* impl ViewNode for RowView
RowView_render(children, stdout, bounds, overflow_checks) ==
    LET len == Len(children)
        offset == bounds.size[1] \div (len % U16)
        step[i \in 0..len] ==
            IF i = 0 THEN Rendered("Ok", stdout)
            ELSE IF step[i - 1].status /= "Ok" THEN step[i - 1]
            ELSE ViewNode_render(children[i], step[i - 1].screen,
                                 row_child_bounds(bounds, offset, i - 1), overflow_checks)
    IN  IF len % U16 = 0 THEN Rendered("Panic", stdout)
        ELSE step[len]

\* ------------------------------------------------------------- view trees

ViewNode_None == [type |-> "None"]
Text(text) == [type |-> "Text", text |-> text]
Row(children) == [type |-> "Row", children |-> children]
Column(children) == [type |-> "Column", children |-> children]
Container(child, style, on_key_press) ==
    [type |-> "Container", child |-> child, style |-> style,
     on_key_press |-> on_key_press]

\* Style { color, background_color }
Style(color, background_color) == [color |-> color, background_color |-> background_color]

\* impl Default for Style
Style_default == Style(NoneOpt, NoneOpt)

\* --------------------------------------------- src/main.rs: the application

\* enum Msg
Msg == {"None", "Increment", "Decrement"}

\* The sizes the user resizes the terminal to while the loop runs.
ResizeTo == {<<2, 3>>}

\* crossterm's Event, cut to the keys the application and the loop tell apart
\* and one event that is not a key: Resize(columns, rows).
KeyCodes == {"q", "Up", "Down", "x"}
Events == [type : {"Key"}, code : KeyCodes] \cup [type : {"Resize"}, size : ResizeTo]
QuitKey == [type |-> "Key", code |-> "q"]

\* The closure given to on_key_press in view (main.rs:146-156).
key_press(event) ==
    CASE event.code = "Up" -> "Increment"
      [] event.code = "Down" -> "Decrement"
      [] OTHER -> "None"

\* fn update (main.rs:134-140): u32 arithmetic. model.0 + 1 overflows at
\* u32::MAX and model.0 - 1 at 0; with overflow checks an overflow panics,
\* without it wraps.
update(msg, model, overflow_checks) ==
    CASE msg = "Increment" ->
            IF model /= -1 THEN [status |-> "Ok", model |-> model + 1]
            ELSE IF overflow_checks THEN [status |-> "Panic", model |-> model]
            ELSE [status |-> "Ok", model |-> 0]
      [] msg = "Decrement" ->
            IF model /= 0 THEN [status |-> "Ok", model |-> model - 1]
            ELSE IF overflow_checks THEN [status |-> "Panic", model |-> model]
            ELSE [status |-> "Ok", model |-> -1]
      [] OTHER -> [status |-> "Ok", model |-> model]

Digit == <<"0", "1", "2", "3", "4", "5", "6", "7", "8", "9">>

\* The decimal digits of a natural number, at least `least` of them.
RECURSIVE digits(_, _)
digits(n, least) ==
    IF n < 10 /\ least <= 1 THEN <<Digit[n + 1]>>
    ELSE Append(digits(n \div 10, least - 1), Digit[(n % 10) + 1])

\* format!("{}", model.0): the decimal digits of the u32.
format(model) ==
    IF model >= 0 THEN digits(model, 1)
    ELSE digits(U32_high + ((U32_low + model) \div 100000), 1)
             \o digits((U32_low + model) % 100000, 5)

\* The applications Terminal::new is given (its update and view arguments):
\*   "counter"      main.rs's view as it stands: the counter's text in a View
\*                  with the default style and the key handler;
\*   "counter_red"  the same in a View with a red background;
\*   "boxes"        a View whose colors follow the counter's parity, holding a
\*                  row of the counter's text and a styled View without a
\*                  child, and registering the key handler unless the
\*                  counter is 2.
Apps == {"counter", "counter_red", "boxes"}

\* fn view (main.rs:142-158), and the other applications' view functions.
view_fn(app, model) ==
    CASE app = "counter" ->
            Container(Text(format(model)), Style_default, "key_press")
      [] app = "counter_red" ->
            Container(Text(format(model)), Style(NoneOpt, "Red"), "key_press")
      [] OTHER ->
            Container(
                Row(<<Text(format(model)),
                      Container(ViewNode_None,
                                Style(IF model % 2 = 1 THEN "Blue" ELSE NoneOpt,
                                      IF model % 2 = 1 THEN "Blue" ELSE "Red"),
                                NoneOpt)>>),
                Style(IF model % 2 = 0 THEN "Red" ELSE "Reset", NoneOpt),
                IF model /= 2 THEN "key_press" ELSE NoneOpt)

\* ------------------------------------------------------------------ state

VARIABLES
    pc,              \* where main is: "new", "run", "view", "render", "diff",
                     \* "flush", "read", "drop", "exit"
    term,            \* the terminal: alternate screen, raw mode, cursor shown
    tty_size,        \* the terminal's size, as terminal::size() reports it
    size,            \* Terminal.size
    app,             \* the application given to Terminal::new
    overflow_checks, \* the build: whether integer overflow panics
    model,           \* run's model
    view,            \* run's view of the current iteration
    old_buffer,      \* run's old_buffer
    new_buffer,      \* run's new_buffer
    queued,          \* the frame's terminal writes, queued and not yet flushed
    event,           \* the event run read last
    update_calls,    \* how often the last dispatch called update
    frame_model,     \* <<m>>: old_buffer holds the frame of model m; <<>>: of none
    result,          \* how run ended: "none", "Ok", "Err:..", "Panic:.."
    exit,            \* how the process ended: "none", "Ok", "Err:..", "Panic:..", "Abort"
    dropped,         \* whether Drop for Terminal ran (the restore step)
    subscription,    \* the messages the subscription stream holds ready
    screen,          \* what the terminal shows: the cells of the flushed writes
    arg_view, arg_bounds, arg_screen, arg_stdout,   \* a render call's arguments
    call_pc,         \* that call: "ready", "tree", "lib", or "off"
    ret              \* and its result

vars == <<pc, term, tty_size, size, app, overflow_checks, model, view, old_buffer, new_buffer,
          queued, event, update_calls, frame_model, result, exit, dropped,
          subscription, screen, arg_view, arg_bounds, arg_screen, arg_stdout, call_pc,
          ret>>

call_vars == <<arg_view, arg_bounds, arg_screen, arg_stdout, call_pc, ret>>

\* The terminal sizes terminal::size() reports.
Sizes == {<<3, 2>>, <<4, 1>>}

NoView == [type |-> "None"]
NoEvent == [type |-> "None"]

\* ---------------------------------------------------- src/lib.rs: Terminal

\* The state before main calls Terminal::new.
InitLoop(sizes) ==
    /\ pc = "new"
    /\ term = [alternate_screen |-> FALSE, raw_mode |-> FALSE, cursor_shown |-> TRUE]
    /\ tty_size \in sizes
    /\ size = <<0, 0>>
    /\ app \in Apps
    /\ overflow_checks \in BOOLEAN
    /\ model = 0
    /\ view = NoView
    /\ old_buffer = <<>>
    /\ new_buffer = <<>>
    /\ queued = <<>>
    /\ event = NoEvent
    /\ update_calls = 0
    /\ frame_model = <<>>
    /\ result = "none"
    /\ exit = "none"
    /\ dropped = FALSE
    /\ subscription = 0
    /\ screen = <<>>
    /\ call_pc = "off"
    /\ arg_view = NoView /\ arg_bounds = <<>> /\ arg_screen = <<>> /\ arg_stdout = <<>>
    /\ ret = <<>>

\* Terminal::new, called by main as Terminal::new(..)? : each of its three
\* fallible steps may fail, and `?` then returns the error from main with no
\* Terminal built (so none is dropped).
Terminal_new ==
    /\ pc = "new"
    /\ \E failing \in {"none", "EnterAlternateScreen", "enable_raw_mode", "size"} :
        /\ term' = [term EXCEPT
                        !.alternate_screen = (failing /= "EnterAlternateScreen"),
                        !.raw_mode = (failing \in {"none", "size"})]
        /\ size' = IF failing = "none" THEN tty_size ELSE size
        /\ pc' = IF failing = "none" THEN "run" ELSE "exit"
        /\ exit' = IF failing = "none" THEN "none" ELSE "Err:" \o failing
    /\ UNCHANGED <<tty_size, app, overflow_checks, model, view, old_buffer, new_buffer,
                   queued, event, update_calls, frame_model, result, dropped, subscription, screen>>
    /\ UNCHANGED call_vars

\* run returns Err (a `?`), Ok (the quit key), or unwinds with a panic: main's
\* temporary Terminal is dropped next.
Leave(how) ==
    /\ result' = how
    /\ pc' = "drop"

\* What the terminal shows after ResetColor and Clear(ClearType::All)
\* (lib.rs:213-219): blank cells in the default colors, over the size the
\* Terminal holds.
cleared(sz) == [y \in 0..(sz[2] - 1) |-> [x \in 0..(sz[1] - 1) |-> Character_default]]

\* Terminal::run up to the loop (lib.rs:208-219).
Terminal_run ==
    /\ pc = "run"
    /\ model' = 0
    /\ old_buffer' = fresh_buffer(size)
    /\ \E io_error \in BOOLEAN :
        IF io_error
        THEN Leave("Err:queue") /\ UNCHANGED <<term, screen>>
        ELSE /\ term' = [term EXCEPT !.cursor_shown = FALSE]
             /\ screen' = cleared(size)
             /\ pc' = "view"
             /\ UNCHANGED result
    /\ UNCHANGED <<tty_size, size, app, overflow_checks, view, new_buffer, queued, event,
                   update_calls, frame_model, exit, dropped, subscription>>
    /\ UNCHANGED call_vars

\* A mutant of Run_view: the new buffer is allocated at the size the terminal
\* has now.
Run_view_at_terminal_size ==
    /\ pc = "view"
    /\ view' = view_fn(app, model)
    /\ new_buffer' = fresh_buffer(tty_size)
    /\ pc' = "render"
    /\ UNCHANGED <<term, tty_size, size, app, overflow_checks, model, old_buffer, queued, event,
                   update_calls, frame_model, result, exit, dropped, subscription, screen>>
    /\ UNCHANGED call_vars

\* lib.rs:222-224: the view of the model and a fresh new_buffer.
Run_view ==
    /\ pc = "view"
    /\ view' = view_fn(app, model)
    /\ new_buffer' = fresh_buffer(size)
    /\ pc' = "render"
    /\ UNCHANGED <<term, tty_size, size, app, overflow_checks, model, old_buffer, queued, event,
                   update_calls, frame_model, result, exit, dropped, subscription, screen>>
    /\ UNCHANGED call_vars

\* lib.rs:226-232: view.render(&mut new_buffer, full-screen bounds)?
Run_render ==
    /\ pc = "render"
    /\ LET r == View_render(view, new_buffer, [origin |-> <<0, 0>>, size |-> size],
                            overflow_checks)
       IN  /\ new_buffer' = r.screen
           /\ IF r.status = "Ok" THEN pc' = "diff" /\ UNCHANGED result
              ELSE Leave(r.status \o ":render")
    /\ UNCHANGED <<term, tty_size, size, app, overflow_checks, model, view, old_buffer, queued,
                   event, update_calls, frame_model, exit, dropped, subscription, screen>>
    /\ UNCHANGED call_vars

\* A mutant of Character_eq: the glyph is left out of the comparison.
Character_eq_colors(a, b) ==
    /\ a.foreground_color = b.foreground_color
    /\ a.background_color = b.background_color

\* #[derive(PartialEq)] for Character: all three fields are compared.
Character_eq(a, b) ==
    /\ a.foreground_color = b.foreground_color
    /\ a.background_color = b.background_color
    /\ a.character = b.character

\* The cursor position the diff computes for flat index i (lib.rs:241-242):
\* `i as u16` keeps the low 16 bits of i.
cursor_of(i, width) ==
    [x |-> (i % U16) % width, y |-> (i % U16) \div width]

\* The diff loop (lib.rs:234-251): the two buffers flattened and zipped, and
\* for each flat index whose cells differ, in ascending order, one write:
\* MoveTo(x, y), the new cell's two colors, Print of its character.
diff_writes(new, old, sz) ==
    LET width == sz[1]
        indices == [j \in 1..(width * sz[2]) |-> j - 1]
        differing ==
            SelectSeq(indices,
                      LAMBDA i : ~Character_eq(new[i \div width][i % width],
                                               old[i \div width][i % width]))
    IN  [j \in 1..Len(differing) |->
            LET i == differing[j]
                cell == new[i \div width][i % width]
            IN  [x |-> cursor_of(i, width).x,
                 y |-> cursor_of(i, width).y,
                 foreground_color |-> cell.foreground_color,
                 background_color |-> cell.background_color,
                 character |-> cell.character]]

\* A mutant of Run_diff: after the writes the loop goes on to read the next
\* event, with no flush.
Run_diff_unflushed ==
    /\ pc = "diff"
    /\ LET writes == diff_writes(new_buffer, old_buffer, size)
       IN  \E failing \in {0} \cup ({1, Len(writes)} \ {0}) :
            IF failing = 0
            THEN /\ queued' = writes
                 /\ pc' = "read"
                 /\ UNCHANGED result
            ELSE /\ queued' = SubSeq(writes, 1, failing - 1)
                 /\ Leave("Err:queue")
    /\ UNCHANGED <<term, tty_size, size, app, overflow_checks, model, view, old_buffer,
                   new_buffer, event, update_calls, frame_model, exit, dropped,
                   subscription, screen>>
    /\ UNCHANGED call_vars

\* lib.rs:234-251: the frame's writes are queued; a queue! that fails ends run
\* with the error, the writes before it queued.
Run_diff ==
    /\ pc = "diff"
    /\ LET writes == diff_writes(new_buffer, old_buffer, size)
       IN  \E failing \in {0} \cup ({1, Len(writes)} \ {0}) :
            IF failing = 0
            THEN /\ queued' = writes
                 /\ pc' = "flush"
                 /\ UNCHANGED result
            ELSE /\ queued' = SubSeq(writes, 1, failing - 1)
                 /\ Leave("Err:queue")
    /\ UNCHANGED <<term, tty_size, size, app, overflow_checks, model, view, old_buffer,
                   new_buffer, event, update_calls, frame_model, exit, dropped,
                   subscription, screen>>
    /\ UNCHANGED call_vars

\* What one write of the diff loop (lib.rs:243-249) does to the terminal:
\* MoveTo(x, y), the two colors, Print of the character.
put(scr, w) ==
    IF w.y \in DOMAIN scr /\ w.x \in DOMAIN scr[w.y]
    THEN [scr EXCEPT ![w.y][w.x] =
              [foreground_color |-> w.foreground_color,
               background_color |-> w.background_color,
               character |-> w.character]]
    ELSE scr

\* The writes lo..hi of a frame reach the terminal, in the order they were
\* queued (stdout.flush(), lib.rs:252): the first half of them, then, on the
\* screen these left (which has the rows it had), the second half.
RECURSIVE apply_writes(_, _, _, _)
apply_writes(scr, writes, lo, hi) ==
    IF lo > hi THEN scr
    ELSE IF lo = hi THEN put(scr, writes[lo])
    ELSE LET mid == (lo + hi) \div 2
             first == apply_writes(scr, writes, lo, mid)
         IN  IF DOMAIN first = DOMAIN scr
             THEN apply_writes(first, writes, mid + 1, hi)
             ELSE first

\* A mutant of next_old_buffer: the old buffer is kept.
next_old_buffer_kept(new, old) == old

\* lib.rs:254: old_buffer = new_buffer.
next_old_buffer(new, old) == new

\* lib.rs:252-254: stdout.flush()?, then the new buffer becomes the old one.
Run_flush ==
    /\ pc = "flush"
    /\ \E io_error \in BOOLEAN :
        IF io_error
        THEN Leave("Err:flush") /\ UNCHANGED <<old_buffer, frame_model, screen>>
        ELSE /\ screen' = apply_writes(screen, queued, 1, Len(queued))
             /\ old_buffer' = next_old_buffer(new_buffer, old_buffer)
             /\ frame_model' = <<model>>
             /\ pc' = "read"
             /\ UNCHANGED result
    /\ UNCHANGED <<term, tty_size, size, app, overflow_checks, model, view, new_buffer,
                   queued, event, update_calls, exit, dropped, subscription>>
    /\ UNCHANGED call_vars

\* A mutant of dispatch: the arm of key events comes before the quit key's.
dispatch_keys_first(e, v) ==
    IF e.type = "Key" /\ v.on_key_press /= NoneOpt
    THEN [do |-> "update", message |-> key_press(e)]
    ELSE IF e.type = "Key" /\ e.code = "q" THEN [do |-> "quit", message |-> "None"]
    ELSE [do |-> "ignore", message |-> "None"]

\* A mutant of dispatch: a key is given to the key handler whether the view
\* registered it or not.
dispatch_unregistered(e, v) ==
    IF e.type = "Key" /\ e.code = "q" THEN [do |-> "quit", message |-> "None"]
    ELSE IF e.type = "Key" THEN [do |-> "update", message |-> key_press(e)]
    ELSE [do |-> "ignore", message |-> "None"]

\* The match on the event read (lib.rs:256-268): what run does with event e
\* under view v. "quit" ends the loop; "update" carries the message the key
\* handler made of the event; "ignore" leaves the model alone.
dispatch(e, v) ==
    IF e.type = "Key" /\ e.code = "q" THEN [do |-> "quit", message |-> "None"]
    ELSE IF e.type = "Key" /\ v.on_key_press /= NoneOpt
         THEN [do |-> "update", message |-> key_press(e)]
    ELSE [do |-> "ignore", message |-> "None"]

\* lib.rs:256-268: event::read()? and the match on it. A Resize event tells of
\* the terminal's new size. The user presses Up
\* only while the counter is not MaxModel, and Down only while it is not
\* MaxModel below zero (modulo 2^32).
Run_read ==
    /\ pc = "read"
    /\ \E io_error \in BOOLEAN, e \in Events :
        /\ (e.type = "Key" /\ e.code = "Up") => model /= MaxModel
        /\ (e.type = "Key" /\ e.code = "Down") => model /= -MaxModel
        /\ IF io_error
           THEN Leave("Err:read") /\ UNCHANGED <<event, model, update_calls, tty_size>>
           ELSE LET d == dispatch(e, view)
                    m == update(d.message, model, overflow_checks)
                IN  /\ event' = e
                    /\ tty_size' = IF e.type = "Resize" THEN e.size ELSE tty_size
                    /\ CASE d.do = "quit" ->
                              Leave("Ok") /\ UNCHANGED model /\ update_calls' = 0
                         [] d.do = "update" /\ m.status = "Panic" ->
                              Leave("Panic:update") /\ UNCHANGED model /\ update_calls' = 1
                         [] d.do = "update" /\ m.status = "Ok" ->
                              /\ model' = m.model
                              /\ update_calls' = 1
                              /\ pc' = "view"
                              /\ UNCHANGED result
                         [] OTHER ->
                              /\ pc' = "view"
                              /\ update_calls' = 0
                              /\ UNCHANGED <<model, result>>
    /\ UNCHANGED <<term, size, app, overflow_checks, view, old_buffer,
                   new_buffer, queued, frame_model, exit, dropped, subscription, screen>>
    /\ UNCHANGED call_vars

\* What the terminal is after Drop's execute!(ResetColor, Show,
\* LeaveAlternateScreen) succeeded (lib.rs:279-284).
restore(t) == [t EXCEPT !.cursor_shown = TRUE, !.alternate_screen = FALSE]

\* Drop for Terminal (lib.rs:273-287), run when main's temporary Terminal goes
\* out of scope: after run returned, or while a panic unwinds. The restore's
\* result is unwrapped: a failure panics, which aborts the process when a
\* panic is already unwinding and otherwise replaces run's result as the
\* outcome of main.
Terminal_drop ==
    /\ pc = "drop"
    /\ dropped' = TRUE
    /\ pc' = "exit"
    /\ \E io_error \in BOOLEAN :
        IF io_error
        THEN /\ exit' = IF result \in {"Panic:render", "Panic:update"}
                        THEN "Abort" ELSE "Panic:drop"
             /\ UNCHANGED term
        ELSE /\ exit' = result
             /\ term' = restore(term)
    /\ UNCHANGED <<tty_size, size, app, overflow_checks, model, view, old_buffer,
                   new_buffer, queued, event, update_calls, frame_model, result,
                   subscription, screen>>
    /\ UNCHANGED call_vars

\* The most subscription messages held ready at once.
MaxSubscription == 1

\* The subscription stream (an external collaborator) has one more message
\* ready while the loop runs.
Subscription_ready ==
    /\ pc \in {"view", "render", "diff", "flush", "read"}
    /\ subscription < MaxSubscription
    /\ subscription' = subscription + 1
    /\ UNCHANGED <<pc, term, tty_size, size, app, overflow_checks, model, view,
                   old_buffer, new_buffer, queued, event, update_calls, frame_model,
                   result, exit, dropped, screen>>
    /\ UNCHANGED call_vars

Init == InitLoop(Sizes)

Step ==
    \/ Terminal_new
    \/ Terminal_run
    \/ Run_view
    \/ Run_render
    \/ Run_diff
    \/ Run_flush
    \/ Run_read
    \/ Terminal_drop

Next == Step \/ Subscription_ready

Spec == Init /\ [][Next]_vars

\* The counter on a 3 x 2 terminal.
InitFair == InitLoop({<<3, 2>>}) /\ app = "counter"

\* The loop under fair scheduling: the program's own steps are taken as long
\* as they can be (the user and the terminal keep delivering events); nothing
\* is assumed of the subscription stream.
FairSpec == InitFair /\ [][Next]_vars /\ WF_vars(Step)

\* A terminal of more than 2^16 cells.
WideSizes == {<<257, 256>>}

InitWide == InitLoop(WideSizes) /\ app = "counter_red"

\* The loop on the wide terminal, the subscription stream left aside.
SpecWide == InitWide /\ [][Step]_vars

\* ------------------------------------------------- render as a function

\* The largest origin coordinate and the largest extent of the bounds given
\* to a render call.
MaxOrigin == 2
MaxExtent == 3

\* The sizes of the buffers given to a render call.
CallSizes == {<<3, 2>>, <<2, 1>>}

\* A cell no renderer writes: every write shows against it.
Mark == [foreground_color |-> "Blue", background_color |-> "Blue", character |-> <<"#">>]

RedBox == Container(ViewNode_None, Style(NoneOpt, "Red"), NoneOpt)

\* The view trees given to ViewNode::render of lib.rs ..
LibTrees ==
    { Text(<<"a", "b">>),
      Text(<<"e", "U+0301", "x">>),
      Text(<<"a", "b", "c", "d">>),
      Row(<<>>),
      Row(<<RedBox>>),
      Row(<<Text(<<"a">>), RedBox>>),
      Row(<<Text(<<"a">>), Row(<<RedBox>>)>>),
      RedBox,
      Container(Text(<<"a", "b">>), Style("Red", NoneOpt), "key_press"),
      Container(Container(Text(<<"a">>), Style_default, NoneOpt), Style("Red", "Red"), NoneOpt),
      Container(Row(<<Text(<<"a">>), RedBox>>), Style_default, NoneOpt) }

\* .. and to render of tree.rs, which also has None and Column nodes.
Trees ==
    LibTrees \cup
    { ViewNode_None,
      Column(<<Text(<<"a">>)>>),
      Row(<<ViewNode_None, Row(<<RedBox>>)>>),
      Row(<<ViewNode_None, Text(<<"a", "b">>)>>) }

\* Rows of boxes that set both colors and of one-cluster texts, for calls on
\* a buffer wide enough for a row of width 30.
BoxA == Container(ViewNode_None, Style("Red", "Red"), NoneOpt)
BoxB == Container(ViewNode_None, Style("Reset", "Red"), NoneOpt)
BoxC == Container(ViewNode_None, Style("Reset", "Reset"), NoneOpt)
TextA == Text(<<"a">>)

RowTrees ==
    { Row(<<BoxA>>),
      Row(<<BoxA, BoxB>>),
      Row(<<BoxA, TextA>>),
      Row(<<TextA, BoxA>>),
      Row(<<BoxA, BoxB, BoxC>>),
      Row(<<BoxA, TextA, TextA>>),
      Row(<<TextA, BoxA, TextA>>),
      Row(<<TextA, TextA, BoxA>>),
      Row(<<TextA, BoxB, BoxA>>) }

RowBounds ==
    [origin : {0, 2} \X {0, 1},
     size : {0, 1, 2, 3, 7, 30} \X {0, 1, 2}]

RowSizes == {<<32, 2>>}

CallBounds ==
    [origin : ((0..MaxOrigin) \X (0..MaxOrigin)) \cup {<<U16 - 1, 0>>, <<0, U16 - 1>>},
     size : (0..MaxExtent) \X (0..MaxExtent)]

\* A render call about to be made: a view tree, bounds, and a buffer of marked
\* cells, as a ScreenBuffer and as a Vec<Vec<Character>>.
InitCallOf(trees, bounds, sizes) ==
    /\ call_pc = "ready"
    /\ arg_view \in trees
    /\ arg_bounds \in bounds
    /\ overflow_checks \in BOOLEAN
    /\ \E sz \in sizes :
        /\ arg_screen = ScreenBuffer_new(sz[1], sz[2], Mark)
        /\ arg_stdout = [y \in 0..(sz[2] - 1) |-> [x \in 0..(sz[1] - 1) |-> Mark]]
    /\ ret = Rendered("none", <<>>)
    /\ pc = "off"
    /\ term = [alternate_screen |-> FALSE, raw_mode |-> FALSE, cursor_shown |-> TRUE]
    /\ tty_size = <<0, 0>> /\ size = <<0, 0>>
    /\ app = "counter"
    /\ model = 0
    /\ view = NoView
    /\ old_buffer = <<>> /\ new_buffer = <<>>
    /\ queued = <<>>
    /\ event = NoEvent
    /\ update_calls = 0
    /\ frame_model = <<>>
    /\ result = "none" /\ exit = "none"
    /\ dropped = FALSE
    /\ subscription = 0
    /\ screen = <<>>

InitCall == InitCallOf(Trees, CallBounds, CallSizes)

call_unchanged ==
    UNCHANGED <<pc, term, tty_size, size, app, overflow_checks, model, view, old_buffer,
                new_buffer, queued, event, update_calls, frame_model, result, exit,
                dropped, subscription, screen, arg_view, arg_bounds, arg_screen,
                arg_stdout>>

\* tree.rs: render(&arg_view, &mut arg_screen, &arg_bounds)
Call_render ==
    /\ call_pc = "ready"
    /\ call_pc' = "tree"
    /\ ret' = render(arg_view, arg_screen, arg_bounds, overflow_checks)
    /\ call_unchanged

\* lib.rs: arg_view.render(&mut arg_stdout, &arg_bounds)
Call_ViewNode_render ==
    /\ call_pc = "ready"
    /\ arg_view \in LibTrees \cup RowTrees
    /\ call_pc' = "lib"
    /\ ret' = ViewNode_render(arg_view, arg_stdout, arg_bounds, overflow_checks)
    /\ call_unchanged

NextCall == Call_render \/ Call_ViewNode_render

SpecRender == InitCall /\ [][NextCall]_vars

\* The render calls on rows.
InitRow == InitCallOf(RowTrees, RowBounds, RowSizes)

SpecRow == InitRow /\ [][NextCall]_vars

\* ------------------------------------------------------------------ claims

Running == pc \in {"view", "render", "diff", "flush", "read"}

\* C1: the quit key ends run with Ok, and once the Terminal is released the
\* terminal is fully restored: alternate screen left, raw mode off, cursor
\* shown. (Drop never disables raw mode, so this fails.)
C1_QuitRestoresTerminal ==
    /\ (pc \in {"drop", "exit"} /\ event = QuitKey /\ result /= "Err:read")
           => result = "Ok"
    /\ exit = "Ok" =>
           /\ ~term.alternate_screen
           /\ ~term.raw_mode
           /\ term.cursor_shown

\* C2: on every exit after the alternate screen was entered in Terminal::new,
\* the restore step (Drop) has been executed. (A failure of enable_raw_mode or
\* of the size query returns from new with no Terminal to drop.)
C2_RestoreOnEveryExit ==
    (pc = "exit" /\ exit /= "Err:EnterAlternateScreen") => dropped

\* C6: a frame produced from the same model as the frame before it (after an
\* event that is no key, a key without a handler, or an update that returned
\* an equal model) emits no terminal write.
C6_EqualModelsNoWrites ==
    (pc = "flush" /\ frame_model = <<model>>) => queued = <<>>

\* C6's case: the second of two frames of one model, after an event, with a
\* view that paints something.
C6_Witness ==
    /\ pc = "flush"
    /\ frame_model = <<model>>
    /\ event /= NoEvent
    /\ new_buffer /= fresh_buffer(size)
    /\ queued = <<>>

\* C8: a key other than the quit key, read while the view of the pre-update
\* model carries a key handler, makes the next model update(handler(key),
\* model), update being called once; the quit key never reaches update.
C8_KeyUpdatesModelOnce ==
    [][(pc = "read" /\ pc' /= "read" /\ result' /= "Err:read") =>
        /\ (event' /= QuitKey /\ event'.type = "Key"
                /\ view_fn(app, model).on_key_press /= NoneOpt) =>
              LET m == update(key_press(event'), model, overflow_checks)
              IN  /\ update_calls' = 1
                  /\ m.status = "Ok" => (model' = m.model /\ pc' = "view")
                  /\ m.status = "Panic" => result' = "Panic:update"
        /\ event' = QuitKey =>
              (update_calls' = 0 /\ model' = model /\ result' = "Ok")]_vars

\* C8's case: the Up key was read under a view with a handler and the model
\* went from 1 to 2.
C8_Witness ==
    /\ pc = "view"
    /\ event = [type |-> "Key", code |-> "Up"]
    /\ update_calls = 1
    /\ model = 2
    /\ frame_model = <<1>>

\* C10: when the loop ended with an error, the outcome of main is that error,
\* also when the restore in Drop failed. (Drop unwraps the restore's result:
\* its panic takes the place of the error run returned.)
C10_OriginalErrorSurvives ==
    (pc = "exit" /\ dropped /\ result \notin {"none", "Ok"}) => exit = result

\* C7: a subscription message that is ready is eventually applied. (run reads
\* terminal events only; nothing ever takes a message from the subscription
\* stream.)
C7_SubscriptionServiced ==
    (Running /\ subscription > 0) ~> (subscription = 0 \/ pc = "exit")

\* The positions of the buffer whose new cell differs from the old one.
Differing ==
    {c \in (0..(size[1] - 1)) \X (0..(size[2] - 1)) :
        ~Character_eq(new_buffer[c[2]][c[1]], old_buffer[c[2]][c[1]])}

\* C3: in every frame a write is emitted for a position iff the new cell
\* there differs from the old one, and it carries the new cell's colors and
\* glyph. (Fails on a terminal of more than 2^16 cells, where the 16-bit
\* conversion of the flat index of C18 sends writes to other positions.)
C3_WritesAreTheDifferingCells ==
    pc = "flush" =>
        /\ {<<queued[j].x, queued[j].y>> : j \in 1..Len(queued)} = Differing
        /\ \A j \in 1..Len(queued) :
              LET cell == new_buffer[queued[j].y][queued[j].x]
              IN  /\ queued[j].foreground_color = cell.foreground_color
                  /\ queued[j].background_color = cell.background_color
                  /\ queued[j].character = cell.character

\* The cells of the buffer given to the render call, as <<col, row>>.
ArgCells == (0..(arg_screen.width - 1)) \X (0..(arg_screen.height - 1))

\* The cell <<col, row>> of the call's result, whichever renderer made it.
RetCell(c) ==
    IF call_pc = "tree" THEN ret.screen.data[c[2] * arg_screen.width + c[1]]
    ELSE ret.screen[c[2]][c[1]]

\* The cells the call changed.
Changed == {c \in ArgCells : RetCell(c) /= Mark}

InBounds(c, b) ==
    /\ b.origin[1] <= c[1] /\ c[1] < b.origin[1] + b.size[1]
    /\ b.origin[2] <= c[2] /\ c[2] < b.origin[2] + b.size[2]

\* C4: render leaves every cell outside bounds unchanged, for bounds that lie
\* inside the buffer. (A Row places its children at x = offset * i whatever
\* the origin of its own bounds, and a Text runs on past the bounds' width.)
C4_NothingOutsideBounds ==
    (call_pc \in {"tree", "lib"}
        /\ arg_bounds.origin[1] + arg_bounds.size[1] <= arg_screen.width
        /\ arg_bounds.origin[2] + arg_bounds.size[2] <= arg_screen.height)
    => \A c \in Changed : InBounds(c, arg_bounds)

\* C5: rendering a Row without children returns Ok and changes no cell.
\* (bounds.size.0 / len divides by zero: the call panics.)
C5_EmptyRowIsNoOp ==
    (call_pc \in {"tree", "lib"} /\ arg_view = Row(<<>>))
    => (ret.status = "Ok" /\ Changed = {})

\* The cells, inside the buffer or not, that rendering a tree in bounds
\* addresses if nothing stops it: a Text the cells of its clusters, a
\* Container the cells of its fill loop and its child's, a Row its
\* children's in their slices.
RECURSIVE Addressed(_, _, _)
Addressed(node, b, checks) ==
    CASE node.type = "Text" ->
            {<<b.origin[1] + i, b.origin[2]>> : i \in 0..(Len(graphemes(node.text)) - 1)}
      [] node.type = "Container" ->
            (IF add_u16(b.origin[2], b.size[2], checks) = Panic
                  \/ b.origin[2] >= add_u16(b.origin[2], b.size[2], checks)
             THEN {}
             ELSE LoopCells(b.origin[1], add_u16(b.origin[1], b.size[1], checks),
                            b.origin[2], add_u16(b.origin[2], b.size[2], checks)))
            \cup Addressed(node.child, b, checks)
      [] node.type = "Row" /\ node.children /= <<>> ->
            UNION {Addressed(node.children[i],
                             row_child_bounds(b, b.size[1] \div Len(node.children), i - 1),
                             checks) : i \in 1..Len(node.children)}
      [] OTHER -> {}

\* C9: a render that addresses a cell of column >= width or row >= height
\* ends in a panic that reaches its caller, and writes no cell in that
\* cell's place: every cell it changed is one it addressed.
C9_OutOfBoundsFails ==
    call_pc = "tree" =>
        /\ (Addressed(arg_view, arg_bounds, overflow_checks) \ ArgCells /= {})
               => ret.status = "Panic"
        /\ Changed \subseteq Addressed(arg_view, arg_bounds, overflow_checks)

\* C9's case: a Text that starts inside the buffer and runs past its last
\* column; the call panicked having written the clusters that fit.
C9_Witness ==
    /\ call_pc = "tree"
    /\ arg_view = Text(<<"a", "b", "c", "d">>)
    /\ arg_bounds.origin = <<1, 0>>
    /\ arg_screen.width = 3
    /\ ret.status = "Panic"
    /\ Changed = {<<1, 0>>, <<2, 0>>}

\* The Up key, which the counter's key handler maps to Msg::Increment.
UpKey == [type |-> "Key", code |-> "Up"]

\* C11: the counter shown as Text("0") in a full-screen container with a red
\* background: one press of Up makes the model 1, and the frame after it
\* emits one write, the digit's cell with "1" on red, and none for the cells
\* that hold only the unchanged background.
C11_IncrementWritesOneCell ==
    (app = "counter_red" /\ frame_model = <<0>> /\ event = UpKey
        /\ pc \in {"view", "render", "diff", "flush"})
    => /\ model = 1
       /\ pc = "flush" =>
              queued = <<[x |-> 0, y |-> 0, foreground_color |-> "Reset",
                          background_color |-> "Red", character |-> <<"1">>]>>

\* C11's case: the frame of model 1 after the frame of model 0 and the Up
\* key, its writes queued, on a screen of more than one red cell.
C11_Witness ==
    /\ app = "counter_red"
    /\ pc = "flush"
    /\ frame_model = <<0>>
    /\ event = UpKey
    /\ update_calls = 1
    /\ model = 1
    /\ Len(queued) = 1
    /\ old_buffer[0][0].character = <<"0">>
    /\ new_buffer[0][1].background_color = "Red"
    /\ old_buffer[0][1].background_color = "Red"

\* The slice the row's rule gives child i (0-based) of n in bounds b: origin.x
\* = floor(W/n) * i in buffer coordinates, width = W - floor(W/n) * i, the
\* row's origin.y and height.
ClaimedSlice(b, n, i) ==
    [origin |-> <<(b.size[1] \div n) * i, b.origin[2]>>,
     size |-> <<b.size[1] - (b.size[1] \div n) * i, b.size[2]>>]

\* The cell c of a marked buffer after the first k children of the row
\* arg_view were painted in index order, each in its slice: a box fills its
\* slice, a one-cluster text sets the glyph of its slice's origin.
RECURSIVE ClaimedCell(_, _, _)
ClaimedCell(c, b, k) ==
    IF k = 0 THEN Mark
    ELSE LET prev == ClaimedCell(c, b, k - 1)
             child == arg_view.children[k]
             slice == ClaimedSlice(b, Len(arg_view.children), k - 1)
         IN  IF child.type = "Container" /\ InBounds(c, slice)
             THEN [foreground_color |-> child.style.color,
                   background_color |-> child.style.background_color,
                   character |-> <<" ">>]
             ELSE IF child.type = "Text" /\ c = slice.origin
             THEN [prev EXCEPT !.character = child.text]
             ELSE prev

\* C12: a Row of n >= 1 children in bounds of width W renders child i in the
\* slice at x = floor(W/n) * i (in buffer coordinates) of width
\* W - floor(W/n) * i, with the row's origin.y and height, in index order, a
\* later child painting over the earlier ones: the call succeeds when the
\* slices lie in the buffer, and a call that succeeded left in every cell
\* what painting the slices in that order leaves.
C12_RowSlices ==
    (call_pc \in {"tree", "lib"} /\ arg_view \in RowTrees)
    => /\ (\A i \in 0..(Len(arg_view.children) - 1) :
              LET slice == ClaimedSlice(arg_bounds, Len(arg_view.children), i)
              IN  /\ slice.origin[1] + slice.size[1] <= arg_screen.width
                  /\ slice.origin[2] + slice.size[2] <= arg_screen.height)
           => ret.status = "Ok"
       /\ ret.status = "Ok" =>
              \A c \in ArgCells :
                  RetCell(c) = ClaimedCell(c, arg_bounds, Len(arg_view.children))

\* C12's case: a row of three in bounds of width 30 whose origin.x is 2. The
\* first child's box spans x = 0..29 (width 30 from x = 0) and the texts
\* after it stand at x = 10 and x = 20.
C12_Witness ==
    /\ call_pc = "lib"
    /\ arg_view = Row(<<BoxA, TextA, TextA>>)
    /\ arg_bounds = [origin |-> <<2, 1>>, size |-> <<30, 1>>]
    /\ ret.status = "Ok"
    /\ \A x \in 0..31 :
          /\ RetCell(<<x, 0>>) = Mark
          /\ RetCell(<<x, 1>>) =
                IF x >= 30 THEN Mark
                ELSE [foreground_color |-> "Red", background_color |-> "Red",
                      character |-> IF x \in {10, 20} THEN <<"a">> ELSE <<" ">>]

\* Whether bounds b lie inside the buffer given to the call.
Fits(b) ==
    /\ b.origin[1] + b.size[1] <= arg_screen.width
    /\ b.origin[2] + b.size[2] <= arg_screen.height

\* What the fill of a container of the given style makes of cell ch at c:
\* inside the call's bounds a space, with each color the style's where the
\* style has one and the cell's own where it has none; outside, the cell.
ClaimedFill(style, ch, c) ==
    IF InBounds(c, arg_bounds)
    THEN [foreground_color |->
              IF style.color = NoneOpt THEN ch.foreground_color ELSE style.color,
          background_color |->
              IF style.background_color = NoneOpt THEN ch.background_color
              ELSE style.background_color,
          character |-> <<" ">>]
    ELSE ch

\* C13: rendering a Container in bounds inside the buffer is the fill of
\* every cell of the bounds (a space; each color of the style only where it
\* is present, the cell's color kept where it is absent) and then, on the
\* filled buffer, the rendering of the child in the same bounds.
C13_ContainerFillsThenChild ==
    /\ (call_pc = "tree" /\ arg_view.type = "Container" /\ Fits(arg_bounds)) =>
          ret = render(arg_view.child,
                       [arg_screen EXCEPT !.data =
                           [k \in DOMAIN arg_screen.data |->
                               ClaimedFill(arg_view.style, arg_screen.data[k],
                                           <<k % arg_screen.width,
                                             k \div arg_screen.width>>)]],
                       arg_bounds, overflow_checks)
    /\ (call_pc = "lib" /\ arg_view.type = "Container" /\ Fits(arg_bounds)) =>
          LET filled ==
                  [y \in DOMAIN arg_stdout |-> [x \in DOMAIN arg_stdout[y] |->
                      ClaimedFill(arg_view.style, arg_stdout[y][x], <<x, y>>)]]
          IN  ret = IF arg_view.child.type = "None" THEN Rendered("Ok", filled)
                    ELSE ViewNode_render(arg_view.child, filled, arg_bounds,
                                         overflow_checks)

\* C13's case: a container with a foreground color only around a text, in
\* bounds that leave out the first column: the cells of the bounds turned
\* red on the background they had, and the text stands on them.
C13_Witness ==
    /\ call_pc = "tree"
    /\ arg_view = Container(Text(<<"a", "b">>), Style("Red", NoneOpt), "key_press")
    /\ arg_bounds = [origin |-> <<1, 0>>, size |-> <<2, 2>>]
    /\ arg_screen.width = 3 /\ arg_screen.height = 2
    /\ ret.status = "Ok"
    /\ RetCell(<<0, 0>>) = Mark
    /\ RetCell(<<1, 0>>) = [foreground_color |-> "Red", background_color |-> "Blue",
                            character |-> <<"a">>]
    /\ RetCell(<<2, 0>>) = [foreground_color |-> "Red", background_color |-> "Blue",
                            character |-> <<"b">>]
    /\ RetCell(<<2, 1>>) = [foreground_color |-> "Red", background_color |-> "Blue",
                            character |-> <<" ">>]

\* The user-perceived characters of a text, read off the text: a character
\* starts at the first code point and at every code point that is not a
\* combining mark, and runs up to the next start.
CharacterStarts(text) ==
    SelectSeq([i \in 1..Len(text) |-> i], LAMBDA i : i = 1 \/ text[i] \notin Extend)

ClaimedClusters(text) ==
    LET starts == CharacterStarts(text)
    IN  [j \in 1..Len(starts) |->
            SubSeq(text, starts[j],
                   IF j = Len(starts) THEN Len(text) ELSE starts[j + 1] - 1)]

\* The cell at c after a Text of clusters cl was rendered at origin: cluster i
\* is the glyph of the cell i to the right of the origin, colors as before.
ClaimedTextCell(c, cl, origin) ==
    IF c[2] = origin[2] /\ origin[1] <= c[1] /\ c[1] < origin[1] + Len(cl)
    THEN [Mark EXCEPT !.character = cl[c[1] - origin[1] + 1]]
    ELSE Mark

\* C14: rendering a Text of k clusters at origin (x, y) succeeds exactly when
\* the cells (x, y) .. (x + k - 1, y) are in the buffer, and then cell
\* (x + i, y) has cluster i as its glyph, one cell for each cluster, with its
\* colors and every other cell as they were; a call that failed changed no
\* cell but some of these, to these glyphs.
C14_TextOneCellPerCluster ==
    (call_pc \in {"tree", "lib"} /\ arg_view.type = "Text")
    => LET cl == ClaimedClusters(arg_view.text)
           origin == arg_bounds.origin
       IN  /\ ret.status = "Ok" <=>
                  (origin[1] + Len(cl) <= arg_screen.width
                      /\ origin[2] < arg_screen.height)
           /\ ret.status = "Ok" =>
                  \A c \in ArgCells : RetCell(c) = ClaimedTextCell(c, cl, origin)
           /\ \A c \in Changed : RetCell(c) = ClaimedTextCell(c, cl, origin)

\* C14's case: "e" with a combining acute accent, then "x", rendered at
\* (1, 1) of a buffer three cells wide: two cells changed, the first holding
\* both code points.
C14_Witness ==
    /\ call_pc = "lib"
    /\ arg_view = Text(<<"e", "U+0301", "x">>)
    /\ arg_bounds.origin = <<1, 1>>
    /\ arg_screen.width = 3
    /\ ret.status = "Ok"
    /\ Changed = {<<1, 1>>, <<2, 1>>}
    /\ RetCell(<<1, 1>>) = [Mark EXCEPT !.character = <<"e", "U+0301">>]
    /\ RetCell(<<2, 1>>) = [Mark EXCEPT !.character = <<"x">>]

\* The place of a write's target in the row-major order of the screen.
RowMajor(w) == w.y * size[1] + w.x

\* C15: the writes of a frame are emitted in strictly ascending row-major
\* order of their targets, so that no position is written twice. (On a
\* terminal of more than 2^16 cells the 16-bit conversion of C18 sends the
\* writes of the cells from flat index 2^16 on back to the top row.)
C15_WritesAscending ==
    \A j \in 1..(Len(queued) - 1) : RowMajor(queued[j]) < RowMajor(queued[j + 1])

\* The order of the steps of one iteration, as places of the loop.
FrameOrder ==
    {<<"view", "render">>, <<"render", "diff">>, <<"diff", "flush">>,
     <<"flush", "read">>, <<"read", "view">>}

\* C16: the steps of an iteration come in the order view, render, emit
\* writes, flush, read event, update. Writes are queued in the emit step
\* only, reach the terminal in the flush step only, which comes once after
\* the emit step and before the read and carries all of the frame's writes;
\* the view is that of the model, and the model changes only in the step
\* that read an event (never between the view and the flush of a frame).
C16_FrameStepsInOrder ==
    [][/\ (Running /\ pc' /= pc) => (<<pc, pc'>> \in FrameOrder \/ pc' = "drop")
       /\ queued' /= queued => pc = "diff"
       /\ (Running /\ screen' /= screen) => (pc = "flush" /\ pc' = "read")
       /\ (pc = "flush" /\ pc' = "read") =>
              screen' = apply_writes(screen, queued, 1, Len(queued))
       /\ (Running /\ view' /= view) => (pc = "view" /\ view' = view_fn(app, model))
       /\ (Running /\ model' /= model) => pc = "read"]_vars

\* C16's case: the second frame was flushed with its one write, after Up
\* changed the model, and the loop is about to read the next event.
C16_Witness ==
    /\ pc = "read"
    /\ event = UpKey
    /\ frame_model = <<1>>
    /\ model = 1
    /\ Len(queued) = 1
    /\ screen[0][0].character = <<"1">>

\* The flat indices of the cells in which the two buffers differ, ascending.
DifferingIndices ==
    SelectSeq([j \in 1..(size[1] * size[2]) |-> j - 1],
              LAMBDA i : new_buffer[i \div size[1]][i % size[1]]
                             /= old_buffer[i \div size[1]][i % size[1]])

\* C18: the cursor position emitted for the differing cell of flat index i is
\* (i mod width, i div width), whatever the size of the terminal. (`i as u16`
\* keeps the low 16 bits of i: from flat index 2^16 on the position is that
\* of the cell 2^16 places before.)
C18_CursorIsTheCell ==
    pc = "flush" =>
        LET differing == DifferingIndices
        IN  /\ Len(queued) = Len(differing)
            /\ \A j \in 1..Len(queued) :
                  /\ queued[j].x = differing[j] % size[1]
                  /\ queued[j].y = differing[j] \div size[1]

\* C17: after the flush of a frame the terminal shows, cell for cell, the
\* rendering of view(model) on an all-default buffer, which is old_buffer
\* too. (On a terminal of more than 2^16 cells the writes the conversion of
\* C18 sent elsewhere leave their own cells as they were and overwrite
\* others.)
C17_ScreenIsTheView ==
    pc = "read" =>
        /\ screen = old_buffer
        /\ screen = View_render(view_fn(app, model), fresh_buffer(size),
                                [origin |-> <<0, 0>>, size |-> size],
                                overflow_checks).screen

\* Whether a buffer has sz[2] rows of sz[1] cells.
HasSize(buffer, sz) ==
    /\ DOMAIN buffer = 0..(sz[2] - 1)
    /\ \A y \in DOMAIN buffer : DOMAIN buffer[y] = 0..(sz[1] - 1)

\* C19: in every iteration the old and the new buffer have the width and the
\* height Terminal::new read from the terminal, which no later step, and no
\* resize of the terminal, changes.
C19_BuffersKeepSize ==
    /\ [](/\ Running => HasSize(old_buffer, size)
          /\ pc \in {"render", "diff", "flush", "read"} => HasSize(new_buffer, size))
    /\ [][/\ (pc = "new" /\ pc' = "run") => size' = tty_size
          /\ pc /= "new" => size' = size]_vars

\* C19's case: a frame rendered after the terminal was resized: both buffers
\* still have the size read at the start, which the terminal no longer has.
C19_Witness ==
    /\ pc = "flush"
    /\ event.type = "Resize"
    /\ tty_size /= size
    /\ frame_model /= <<>>
    /\ HasSize(old_buffer, size)
    /\ HasSize(new_buffer, size)

\* C20: an event that is no key, and a key other than the quit key read while
\* the view of the iteration has no key handler, leave the model as it is
\* without a call of update, and the loop goes on to the next frame.
C20_UnhandledEventsKeepModel ==
    [][(pc = "read" /\ pc' /= "read" /\ result' /= "Err:read") =>
          ((event'.type /= "Key"
               \/ (event' /= QuitKey /\ view.on_key_press = NoneOpt))
           => /\ model' = model
              /\ update_calls' = 0
              /\ pc' = "view"
              /\ result' = "none")]_vars

\* C20's case: the Down key read under the boxes' view of model 2, which
\* registers no handler: the model is still 2.
C20_Witness ==
    /\ pc = "view"
    /\ app = "boxes"
    /\ frame_model = <<2>>
    /\ view.on_key_press = NoneOpt
    /\ event = [type |-> "Key", code |-> "Down"]
    /\ model = 2
    /\ update_calls = 0

====
